---------------------------- MODULE Spec2Model ----------------------------
(***************************************************************************)
(* Model of BrookBondParameters (platforms/brook/src/BrookBondParameters.  *)
(* cpp): a store of per-bond particle-index rows and parameter rows with a *)
(* bounds-checked, appending setBond and a fixed-width text dump.          *)
(*                                                                         *)
(* Text is modelled as a sequence of one-character strings, so that field  *)
(* widths, padding and line breaks are what the code produces.  Bond       *)
(* indices are 0-based as in the code; row ii of a vector is element ii+1  *)
(* of the sequence that models it.  Parameter values are doubles with an   *)
(* integral value, represented by that integer.                            *)
(***************************************************************************)
EXTENDS Integers, Sequences, FiniteSets, TLC

(***************************************************************************)
(* Bounds of the model.                                                    *)
(***************************************************************************)
MaxBonds == 2
MaxPerBond == 2
MaxSetCalls == 2

(***************************************************************************)
(* Program constants.                                                      *)
(***************************************************************************)
MAX_LINE_CHARS == 256
MAX_VALUE_CHARS == 1024
descriptionSz == 1024
DefaultReturnValue == "DefaultReturnValue"

NULL == "NULL"

(***************************************************************************)
(* Inputs the environment may pass.                                        *)
(***************************************************************************)
BondNames == { << "H", "B" >> }
LogHandles == { NULL, "stderr" }
BondCounts == -1 .. MaxBonds
PerBondCounts == -1 .. MaxPerBond
BondIndexInputs == -1 .. MaxBonds
Levels == { 0 }
\* what a read past the end of a vector may yield when it does not fault
GarbageValues == { -858 }

\* caller buffers: each holds at least MaxPerBond elements, so every store of
\* the model reads inside them (the caller contract of setBond)
ParticleBuffer(v) == [jj \in 1 .. MaxPerBond + 1 |-> IF v = 1 THEN 3 + 4 * (jj - 1) ELSE 20 - jj]
ParameterBuffer(v) == [jj \in 1 .. MaxPerBond + 1 |-> IF v = 1 THEN 120 * jj ELSE 0 - jj]
BufferIds == { 1, 2 }

VARIABLES
    pc,                         \* "new", "live", "failed" (constructor threw), "crashed"
    _bondName,
    _numberOfParticlesInBond,
    _numberOfParametersInBond,
    _numberOfBonds,
    _log,
    _particleIndices,           \* vector<vector<int>>
    _bondParameters,            \* vector<vector<double>>
    logOutput,                  \* text written to the FILE* handles, in order
    bondCount,                  \* the numberOfBonds the constructor was called with
    setBondCalls,               \* per bond: the inputs of the setBond calls that returned
    lastCall                    \* the last call made, its arguments and its outcome

vars == << pc, _bondName, _numberOfParticlesInBond, _numberOfParametersInBond,
           _numberOfBonds, _log, _particleIndices, _bondParameters, logOutput,
           bondCount, setBondCalls, lastCall >>

members == << _bondName, _numberOfParticlesInBond, _numberOfParametersInBond,
              _numberOfBonds, _log, _particleIndices, _bondParameters >>

(***************************************************************************)
(* printf-style formatting.                                                *)
(***************************************************************************)
Max(a, b) == IF a >= b THEN a ELSE b

Spaces(n) == [k \in 1 .. n |-> " "]

DigitChar(d) == << "0", "1", "2", "3", "4", "5", "6", "7", "8", "9" >>[d + 1]

RECURSIVE Digits(_)
Digits(n) == IF n < 10 THEN << DigitChar(n) >>
                       ELSE Digits(n \div 10) \o << DigitChar(n % 10) >>

\* %d
FormatD(n) == IF n < 0 THEN << "-" >> \o Digits(0 - n) ELSE Digits(n)

\* %<w>s / %<w>d: right-aligned in w columns, never truncated
PadLeft(s, w) == Spaces(w - Len(s)) \o s

\* %-<w>s: left-aligned in w columns, never truncated
PadRight(s, w) == s \o Spaces(w - Len(s))

\* %6d
Format6d(n) == PadLeft(FormatD(n), 6)

\* %.10e of a double whose value is the integer x (|x| < 10^11): one digit,
\* the point, ten digits, and a signed exponent of at least two digits
FormatE10(x) ==
    LET ds == Digits(IF x < 0 THEN 0 - x ELSE x)
        exp == Len(ds) - 1
        frac == SubSeq(ds, 2, Len(ds)) \o [k \in 1 .. 10 - exp |-> "0"]
    IN  (IF x < 0 THEN << "-" >> ELSE << >>)
        \o << ds[1], "." >> \o frac
        \o << "e", "+" >> \o (IF exp < 10 THEN << "0" >> ELSE << >>) \o Digits(exp)

\* %18.10e
Format18_10e(x) == PadLeft(FormatE10(x), 18)

endl == << "\n" >>

(***************************************************************************)
(* Construction.                                                           *)
(***************************************************************************)
Init ==
    /\ pc = "new"
    /\ _bondName = << >>
    /\ _numberOfParticlesInBond = 0
    /\ _numberOfParametersInBond = 0
    /\ _numberOfBonds = 0
    /\ _log = NULL
    /\ _particleIndices = << >>
    /\ _bondParameters = << >>
    /\ logOutput = << >>
    /\ bondCount = 0
    /\ setBondCalls = << >>
    /\ lastCall = [ op |-> "none", args |-> << >>, outcome |-> "none", value |-> << >> ]

\* Seeded fault: a zero count is refused as well.
ResizeThrowsOnZeroToo(n) == n <= 0

\* std::vector::resize( n ) called with an int: the count converts to size_type,
\* and a negative int becomes a value above max_size(), for which resize
\* throws std::length_error
ResizeThrows(n) == n < 0

\* Seeded fault: one row too many is allocated.
resizeOneTooMany(v, n) == v \o [k \in 1 .. n + 1 - Len(v) |-> << >>]

\* Seeded fault: the new rows are allocated with one zero element each.
resizeWithFilledRows(v, n) == v \o [k \in 1 .. n - Len(v) |-> << 0 >>]

\* std::vector::resize( n ): value-initialised (empty) rows are appended, or
\* the tail is dropped
resize(v, n) ==
    IF n >= Len(v) THEN v \o [k \in 1 .. n - Len(v) |-> << >>]
                   ELSE SubSeq(v, 1, n)

Construct(bondName, numberOfParticlesInBond, numberOfParametersInBond, numberOfBonds, log) ==
    /\ pc = "new"
    /\ LET args == [ bondName |-> bondName,
                     numberOfParticlesInBond |-> numberOfParticlesInBond,
                     numberOfParametersInBond |-> numberOfParametersInBond,
                     numberOfBonds |-> numberOfBonds,
                     log |-> log ]
       IN
       IF ResizeThrows(numberOfBonds)
         THEN /\ pc' = "failed"
              /\ lastCall' = [ op |-> "BrookBondParameters", args |-> args,
                               outcome |-> "length_error", value |-> << >> ]
              /\ UNCHANGED << members, bondCount, setBondCalls >>
         ELSE /\ pc' = "live"
              /\ _bondName' = bondName
              /\ _numberOfParticlesInBond' = numberOfParticlesInBond
              /\ _numberOfParametersInBond' = numberOfParametersInBond
              /\ _numberOfBonds' = numberOfBonds
              /\ _log' = log
              /\ _bondParameters' = resize(<< >>, numberOfBonds)
              /\ _particleIndices' = resize(<< >>, numberOfBonds)
              /\ bondCount' = numberOfBonds
              /\ setBondCalls' = [k \in 1 .. numberOfBonds |-> << >>]
              /\ lastCall' = [ op |-> "BrookBondParameters", args |-> args,
                               outcome |-> "constructed", value |-> << >> ]
    /\ UNCHANGED logOutput

(***************************************************************************)
(* Accessors.                                                              *)
(***************************************************************************)
Returned(op, args, value) ==
    /\ pc = "live"
    /\ lastCall' = [ op |-> op, args |-> args, outcome |-> "returned", value |-> value ]
    /\ UNCHANGED << pc, members, logOutput, bondCount, setBondCalls >>

getParticleIndices == Returned("getParticleIndices", << >>, _particleIndices)

getBondParameters == Returned("getBondParameters", << >>, _bondParameters)

getLog == Returned("getLog", << >>, _log)

getBondName == Returned("getBondName", << >>, _bondName)

getNumberOfBonds == Returned("getNumberOfBonds", << >>, _numberOfBonds)

getNumberOfParticlesInBond == Returned("getNumberOfParticlesInBond", << >>, _numberOfParticlesInBond)

getNumberOfParametersInBond == Returned("getNumberOfParametersInBond", << >>, _numberOfParametersInBond)

setLog(log) ==
    /\ pc = "live"
    /\ _log' = log
    /\ lastCall' = [ op |-> "setLog", args |-> << log >>, outcome |-> "returned",
                     value |-> DefaultReturnValue ]
    /\ UNCHANGED << pc, _bondName, _numberOfParticlesInBond,
                    _numberOfParametersInBond, _numberOfBonds, _particleIndices,
                    _bondParameters, logOutput, bondCount, setBondCalls >>

(***************************************************************************)
(* setBond.                                                                *)
(***************************************************************************)
\* Seeded fault: the buffer is read from its end.
PushBackAllReversed(row, buffer, n) == row \o [k \in 1 .. n |-> buffer[n + 1 - k]]

\* Seeded fault: the row is assigned instead of appended to.
AssignAll(row, buffer, n) == [k \in 1 .. n |-> buffer[k]]

\* for( ii = 0; ii < n; ii++ ) row.push_back( buffer[ii] )
PushBackAll(row, buffer, n) == row \o [k \in 1 .. n |-> buffer[k]]

\* Seeded fault: the upper check is > instead of >=.
ValidateBondIndexOffByOne(bondIndex) ==
    IF bondIndex < 0 THEN "below"
    ELSE IF bondIndex > _numberOfBonds THEN "above"
    ELSE "ok"

\* the two validations of the bond index; "ok" when both pass
ValidateBondIndex(bondIndex) ==
    IF bondIndex < 0 THEN "below"
    ELSE IF bondIndex >= _numberOfBonds THEN "above"
    ELSE "ok"

SetBondCallsMade ==
    LET RECURSIVE Sum(_)
        Sum(k) == IF k = 0 THEN 0 ELSE Len(setBondCalls[k]) + Sum(k - 1)
    IN  Sum(Len(setBondCalls))

\* Seeded fault: the fprintf( stderr, "Param ..." ) of the parameter loop is live.
setBondWithTrace(bondIndex, particleIndices, bondParameters) ==
    /\ pc = "live"
    /\ LET args == << bondIndex, particleIndices, bondParameters >>
           check == ValidateBondIndex(bondIndex)
       IN  IF check # "ok"
            THEN /\ lastCall' = [ op |-> "setBond", args |-> args,
                                  outcome |-> "OpenMMException",
                                  value |-> IF check = "below"
                                             THEN << bondIndex >>
                                             ELSE << bondIndex, _numberOfBonds >> ]
                 /\ UNCHANGED << members, bondCount, setBondCalls >>
            ELSE /\ SetBondCallsMade < MaxSetCalls
                 /\ _particleIndices' =
                        [ _particleIndices EXCEPT ![bondIndex + 1] =
                            PushBackAll(@, particleIndices, _numberOfParticlesInBond) ]
                 /\ _bondParameters' =
                        [ _bondParameters EXCEPT ![bondIndex + 1] =
                            PushBackAll(@, bondParameters, _numberOfParametersInBond) ]
                 /\ setBondCalls' =
                        [ setBondCalls EXCEPT ![bondIndex + 1] =
                            Append(@, [ particleIndices |-> particleIndices,
                                        bondParameters |-> bondParameters ]) ]
                 /\ lastCall' = [ op |-> "setBond", args |-> args, outcome |-> "returned",
                                  value |-> DefaultReturnValue ]
                 /\ UNCHANGED << _bondName, _numberOfParticlesInBond,
                                 _numberOfParametersInBond, _numberOfBonds, _log,
                                 bondCount >>
    /\ logOutput' = IF ValidateBondIndex(bondIndex) = "ok"
                      THEN Append(logOutput, "Param")
                      ELSE logOutput
    /\ UNCHANGED pc

\* Seeded fault: the parameter loop runs to the particle count.
setBondParameterLoopUsesParticleCount(bondIndex, particleIndices, bondParameters) ==
    /\ pc = "live"
    /\ LET args == << bondIndex, particleIndices, bondParameters >>
           check == ValidateBondIndex(bondIndex)
       IN  IF check # "ok"
            THEN /\ lastCall' = [ op |-> "setBond", args |-> args,
                                  outcome |-> "OpenMMException",
                                  value |-> IF check = "below"
                                             THEN << bondIndex >>
                                             ELSE << bondIndex, _numberOfBonds >> ]
                 /\ UNCHANGED << members, bondCount, setBondCalls >>
            ELSE /\ SetBondCallsMade < MaxSetCalls
                 /\ _particleIndices' =
                        [ _particleIndices EXCEPT ![bondIndex + 1] =
                            PushBackAll(@, particleIndices, _numberOfParticlesInBond) ]
                 /\ _bondParameters' =
                        [ _bondParameters EXCEPT ![bondIndex + 1] =
                            PushBackAll(@, bondParameters, _numberOfParticlesInBond) ]
                 /\ setBondCalls' =
                        [ setBondCalls EXCEPT ![bondIndex + 1] =
                            Append(@, [ particleIndices |-> particleIndices,
                                        bondParameters |-> bondParameters ]) ]
                 /\ lastCall' = [ op |-> "setBond", args |-> args, outcome |-> "returned",
                                  value |-> DefaultReturnValue ]
                 /\ UNCHANGED << _bondName, _numberOfParticlesInBond,
                                 _numberOfParametersInBond, _numberOfBonds, _log,
                                 bondCount >>
    /\ UNCHANGED << pc, logOutput >>

setBond(bondIndex, particleIndices, bondParameters) ==
    /\ pc = "live"
    /\ LET args == << bondIndex, particleIndices, bondParameters >>
           check == ValidateBondIndex(bondIndex)
       IN  IF check # "ok"
            THEN /\ lastCall' = [ op |-> "setBond", args |-> args,
                                  outcome |-> "OpenMMException",
                                  value |-> IF check = "below"
                                             THEN << bondIndex >>
                                             ELSE << bondIndex, _numberOfBonds >> ]
                 /\ UNCHANGED << members, bondCount, setBondCalls >>
            ELSE /\ SetBondCallsMade < MaxSetCalls
                 /\ _particleIndices' =
                        [ _particleIndices EXCEPT ![bondIndex + 1] =
                            PushBackAll(@, particleIndices, _numberOfParticlesInBond) ]
                 /\ _bondParameters' =
                        [ _bondParameters EXCEPT ![bondIndex + 1] =
                            PushBackAll(@, bondParameters, _numberOfParametersInBond) ]
                 /\ setBondCalls' =
                        [ setBondCalls EXCEPT ![bondIndex + 1] =
                            Append(@, [ particleIndices |-> particleIndices,
                                        bondParameters |-> bondParameters ]) ]
                 /\ lastCall' = [ op |-> "setBond", args |-> args, outcome |-> "returned",
                                  value |-> DefaultReturnValue ]
                 /\ UNCHANGED << _bondName, _numberOfParticlesInBond,
                                 _numberOfParametersInBond, _numberOfBonds, _log,
                                 bondCount >>
    /\ UNCHANGED << pc, logOutput >>

(***************************************************************************)
(* The text dump.                                                          *)
(***************************************************************************)
tab == << " ", " ", " " >>

\* Seeded fault: the description is not padded ("%s %s %s").
_getLineUnpadded(tabArg, description, value) ==
    tabArg \o << " " >> \o description \o << " " >> \o value \o endl

\* sprintf( line, "%s %-40s %s", tab, description, value ), then
\* message << std::string( line ) << std::endl
_getLine(tabArg, description, value) ==
    tabArg \o << " " >> \o PadRight(description, 40) \o << " " >> \o value \o endl

\* the formatted line and its terminating NUL fit in line[MAX_LINE_CHARS]
LineFits(tabArg, description, value) ==
    Len(_getLine(tabArg, description, value)) - Len(endl) + 1 <= MAX_LINE_CHARS

\* _particleIndices[ii][jj]: an element of the row, or, past its end, whatever
\* the read yields
ParticleIndexAt(ii, jj, garbage) ==
    IF jj < Len(_particleIndices[ii + 1]) THEN _particleIndices[ii + 1][jj + 1] ELSE garbage

\* _bondParameters[ii][jj], likewise
BondParameterAt(ii, jj, garbage) ==
    IF jj < Len(_bondParameters[ii + 1]) THEN _bondParameters[ii + 1][jj + 1] ELSE garbage

\* for( jj = 0; jj < getNumberOfParticlesInBond(); jj++ ): "%6d " appended
RECURSIVE ParticleBlock(_, _, _)
ParticleBlock(ii, jj, garbage) ==
    IF jj < _numberOfParticlesInBond
    THEN Format6d(ParticleIndexAt(ii, jj, garbage)) \o << " " >>
            \o ParticleBlock(ii, jj + 1, garbage)
    ELSE << >>

\* for( jj = 0; jj < getNumberOfParametersInBond(); jj++ ): "%18.10e " appended
RECURSIVE ParameterBlock(_, _, _)
ParameterBlock(ii, jj, garbage) ==
    IF jj < _numberOfParametersInBond
    THEN Format18_10e(BondParameterAt(ii, jj, garbage)) \o << " " >>
            \o ParameterBlock(ii, jj + 1, garbage)
    ELSE << >>

\* the description buffer of bond ii: "%6d [", the indices, "] [", the parameters, "]"
BondDescription(ii, garbage) ==
    Format6d(ii) \o << " ", "[" >> \o ParticleBlock(ii, 0, garbage)
        \o << "]", " ", "[" >> \o ParameterBlock(ii, 0, garbage) \o << "]" >>

\* the description buffers of the bonds 0 .. getNumberOfBonds() - 1, in loop order
Descriptions(garbage) ==
    LET RECURSIVE Build(_)
        Build(ii) == IF ii < _numberOfBonds
                     THEN << BondDescription(ii, garbage) >> \o Build(ii + 1)
                     ELSE << >>
    IN  Build(0)

\* for( ii = 0; ii < getNumberOfBonds(); ii++ ) message << _getLine( tab, "", description )
RECURSIVE BondLines(_, _)
BondLines(descriptions, ii) ==
    IF ii < _numberOfBonds
    THEN _getLine(tab, << >>, descriptions[ii + 1]) \o BondLines(descriptions, ii + 1)
    ELSE << >>

\* the returned message, given the description buffers of the bonds
ContentsString(descriptions) ==
    _getLine(tab, << "B", "o", "n", "d", " ", "n", "a", "m", "e", ":" >>, _bondName)
        \o _getLine(tab, << "N", "u", "m", "b", "e", "r", " ", "o", "f", " ", "b", "o", "n", "d", "s", ":" >>, FormatD(_numberOfBonds))
        \o _getLine(tab, << "P", "a", "r", "t", "i", "c", "l", "e", "s", "/", "b", "o", "n", "d", ":" >>, FormatD(_numberOfParticlesInBond))
        \o _getLine(tab, << "P", "a", "r", "a", "m", "e", "t", "e", "r", "s", "/", "b", "o", "n", "d", ":" >>, FormatD(_numberOfParametersInBond))
        \o << "B", "o", "n", "d", "s", ":" >> \o endl
        \o BondLines(descriptions, 0)

\* every element the dump reads exists
ReadsInRange ==
    \A ii \in 0 .. _numberOfBonds - 1 :
        /\ Len(_particleIndices[ii + 1]) >= _numberOfParticlesInBond
        /\ Len(_bondParameters[ii + 1]) >= _numberOfParametersInBond

\* nothing the dump formats outgrows value[], description[] or line[]
BuffersFit(descriptions) ==
    /\ Len(_bondName) + 1 <= MAX_VALUE_CHARS
    /\ LineFits(tab, << "B", "o", "n", "d", " ", "n", "a", "m", "e", ":" >>, _bondName)
    /\ \A k \in 1 .. Len(descriptions) :
            /\ Len(descriptions[k]) + 1 <= descriptionSz
            /\ LineFits(tab, << >>, descriptions[k])

\* Reading past the end of a row, or writing past the end of a buffer, is
\* undefined: the call may fault, or go on with whatever the read yields.
getContentsString(level) ==
    /\ pc = "live"
    /\ \E garbage \in GarbageValues :
         LET descriptions == Descriptions(garbage)
             defined == ReadsInRange /\ BuffersFit(descriptions)
         IN  \/ /\ ~ defined
                 /\ pc' = "crashed"
                 /\ lastCall' = [ op |-> "getContentsString", args |-> << level >>,
                                  outcome |-> "fault", value |-> << >> ]
              \/ /\ BuffersFit(descriptions)
                 /\ pc' = pc
                 /\ lastCall' = [ op |-> "getContentsString", args |-> << level >>,
                                  outcome |-> "returned",
                                  value |-> ContentsString(descriptions) ]
    /\ UNCHANGED << members, logOutput, bondCount, setBondCalls >>

(***************************************************************************)
(* The specification.                                                      *)
(***************************************************************************)
Next ==
    \/ \E bondName \in BondNames : \E numberOfParticlesInBond, numberOfParametersInBond \in PerBondCounts :
       \E numberOfBonds \in BondCounts : \E log \in LogHandles :
            Construct(bondName, numberOfParticlesInBond, numberOfParametersInBond,
                      numberOfBonds, log)
    \/ \E bondIndex \in BondIndexInputs : \E v \in BufferIds :
            setBond(bondIndex, ParticleBuffer(v), ParameterBuffer(v))
    \/ getParticleIndices
    \/ getBondParameters
    \/ getLog
    \/ getBondName
    \/ setLog(NULL)
    \/ \E log \in LogHandles \ { NULL } : setLog(log)
    \/ getNumberOfBonds
    \/ getNumberOfParticlesInBond
    \/ getNumberOfParametersInBond
    \/ \E level \in Levels : getContentsString(level)

Spec == Init /\ [][Next]_vars

(***************************************************************************)
(* Vocabulary of the properties.                                           *)
(***************************************************************************)
Bonds == 0 .. bondCount - 1

\* the first n elements of a caller buffer: the n values a call supplies
Given(buffer, n) == SubSeq(buffer, 1, n)

\* the number of setBond calls on bond ii that returned
TimesSet(ii) == Len(setBondCalls[ii + 1])

IsConstructorCall == lastCall.op = "BrookBondParameters"

SetBondReturned == lastCall.op = "setBond" /\ lastCall.outcome = "returned"

SetBondThrew == lastCall.op = "setBond" /\ lastCall.outcome = "OpenMMException"

DumpCalled == lastCall.op = "getContentsString"

DumpReturned == DumpCalled /\ lastCall.outcome = "returned"

\* the lines of a text: the pieces that end in a line break
SplitLines(text) ==
    LET breaks == { k \in 1 .. Len(text) : text[k] = "\n" }
        BreakNo(n) == CHOOSE k \in breaks : Cardinality({ j \in breaks : j <= k }) = n
    IN  [ n \in 1 .. Cardinality(breaks) |->
            SubSeq(text, IF n = 1 THEN 1 ELSE BreakNo(n - 1) + 1, BreakNo(n) - 1) ]

\* xs, each element formatted by F and followed by one space
RECURSIVE Listed(_, _, _)
Listed(F(_), xs, k) ==
    IF k > Len(xs) THEN << >> ELSE F(xs[k]) \o << " " >> \o Listed(F, xs, k + 1)

(***************************************************************************)
(* C1: whenever the store exists, the particle-index collection and the    *)
(* parameter collection both have exactly as many rows as the bond count   *)
(* given to the constructor, whatever calls were made since.               *)
(***************************************************************************)
C1_RowCountIsBondCount ==
    pc = "live" =>
        /\ Len(_particleIndices) = bondCount
        /\ Len(_bondParameters) = bondCount

\* a store of two bonds that has been populated and has then seen a setBond throw
C1_Witness ==
    /\ pc = "live"
    /\ bondCount = 2
    /\ SetBondThrew
    /\ \E ii \in Bonds : TimesSet(ii) > 0 /\ _particleIndices[ii + 1] # << >>

(***************************************************************************)
(* C2: a setBond call whose bond index is below 0 or not below the bond    *)
(* count throws the exception and leaves every particle-index row and      *)
(* every parameter row as it was.                                          *)
(***************************************************************************)
C2_BadIndexThrowsAndKeepsRows ==
    [][ ( /\ pc = "live"
          /\ lastCall'.op = "setBond"
          /\ (lastCall'.args[1] < 0 \/ lastCall'.args[1] >= bondCount) )
        => /\ lastCall'.outcome = "OpenMMException"
           /\ _particleIndices' = _particleIndices
           /\ _bondParameters' = _bondParameters ]_vars

\* setBond threw for an index equal to the bond count, on a store that holds data
C2_Witness ==
    /\ SetBondThrew
    /\ lastCall.args[1] = bondCount
    /\ bondCount > 0
    /\ \E ii \in Bonds : _particleIndices[ii + 1] # << >> /\ _bondParameters[ii + 1] # << >>

(***************************************************************************)
(* C3: after exactly one setBond on a valid bond, called with              *)
(* particlesPerBond indices and parametersPerBond values, that bond's      *)
(* particle-index row is the given indices and its parameter row the given *)
(* values, element for element and in input order.                         *)
(***************************************************************************)
C3_SetOnceStoresInputs ==
    pc = "live" =>
        \A ii \in Bonds :
            ( /\ TimesSet(ii) = 1
              /\ _numberOfParticlesInBond >= 0
              /\ _numberOfParametersInBond >= 0 )
            => LET call == setBondCalls[ii + 1][1]
               IN  /\ _particleIndices[ii + 1] =
                        Given(call.particleIndices, _numberOfParticlesInBond)
                   /\ _bondParameters[ii + 1] =
                        Given(call.bondParameters, _numberOfParametersInBond)

\* a bond set once with two indices and two parameters
C3_Witness ==
    /\ SetBondReturned
    /\ _numberOfParticlesInBond = 2
    /\ _numberOfParametersInBond = 2
    /\ TimesSet(lastCall.args[1]) = 1
    /\ Len(_particleIndices[lastCall.args[1] + 1]) = 2

(***************************************************************************)
(* C4, as claimed: after two setBond calls on the same valid bond the      *)
(* particle-index row has length 2 * particlesPerBond and the parameter    *)
(* row has length 2 * parametersPerBond, and each holds the first call's   *)
(* elements followed by the second call's.                                 *)
(***************************************************************************)
C4_Claimed_SetTwiceDoublesLength ==
    pc = "live" =>
        \A ii \in Bonds :
            TimesSet(ii) = 2 =>
                /\ Len(_particleIndices[ii + 1]) = 2 * _numberOfParticlesInBond
                /\ Len(_bondParameters[ii + 1]) = 2 * _numberOfParametersInBond
                /\ _particleIndices[ii + 1] =
                      Given(setBondCalls[ii + 1][1].particleIndices, _numberOfParticlesInBond)
                      \o Given(setBondCalls[ii + 1][2].particleIndices, _numberOfParticlesInBond)
                /\ _bondParameters[ii + 1] =
                      Given(setBondCalls[ii + 1][1].bondParameters, _numberOfParametersInBond)
                      \o Given(setBondCalls[ii + 1][2].bondParameters, _numberOfParametersInBond)

(***************************************************************************)
(* C4, amended: after two setBond calls on the same valid bond the         *)
(* particle-index row has length 2 * max(particlesPerBond, 0) and the      *)
(* parameter row has length 2 * max(parametersPerBond, 0), and each holds  *)
(* the first call's elements followed by the second call's, in input       *)
(* order (a negative per-bond count appends nothing).                      *)
(***************************************************************************)
C4_SetTwiceAppends ==
    pc = "live" =>
        \A ii \in Bonds :
            TimesSet(ii) = 2 =>
                /\ Len(_particleIndices[ii + 1]) = 2 * Max(_numberOfParticlesInBond, 0)
                /\ Len(_bondParameters[ii + 1]) = 2 * Max(_numberOfParametersInBond, 0)
                /\ _particleIndices[ii + 1] =
                      Given(setBondCalls[ii + 1][1].particleIndices, _numberOfParticlesInBond)
                      \o Given(setBondCalls[ii + 1][2].particleIndices, _numberOfParticlesInBond)
                /\ _bondParameters[ii + 1] =
                      Given(setBondCalls[ii + 1][1].bondParameters, _numberOfParametersInBond)
                      \o Given(setBondCalls[ii + 1][2].bondParameters, _numberOfParametersInBond)

\* a bond set twice, with different inputs, two indices and two parameters each time
C4_Witness ==
    /\ SetBondReturned
    /\ TimesSet(lastCall.args[1]) = 2
    /\ _numberOfParticlesInBond = 2
    /\ _numberOfParametersInBond = 2
    /\ setBondCalls[lastCall.args[1] + 1][1] # setBondCalls[lastCall.args[1] + 1][2]
    /\ Len(_particleIndices[lastCall.args[1] + 1]) = 4

(***************************************************************************)
(* C5: right after a construction with a bond count >= 0 the store exists, *)
(* getNumberOfBonds() is that count, and every particle-index row and      *)
(* every parameter row is empty.                                           *)
(***************************************************************************)
C5_ConstructedEmpty ==
    (IsConstructorCall /\ lastCall.args.numberOfBonds >= 0) =>
        /\ pc = "live"
        /\ _numberOfBonds = lastCall.args.numberOfBonds
        /\ Len(_particleIndices) = lastCall.args.numberOfBonds
        /\ Len(_bondParameters) = lastCall.args.numberOfBonds
        /\ \A k \in 1 .. lastCall.args.numberOfBonds :
              _particleIndices[k] = << >> /\ _bondParameters[k] = << >>

\* a store just constructed with two bonds
C5_Witness ==
    /\ IsConstructorCall
    /\ pc = "live"
    /\ lastCall.args.numberOfBonds = 2
    /\ lastCall.args.numberOfParticlesInBond = 2

(***************************************************************************)
(* C6: every getContentsString call completes and returns exactly          *)
(* 4 + 1 + bondCount lines, also when rows were never populated.           *)
(***************************************************************************)
C6_DumpCompletesWithAllLines ==
    DumpCalled =>
        /\ lastCall.outcome = "returned"
        /\ Len(SplitLines(lastCall.value)) = 4 + 1 + bondCount

(***************************************************************************)
(* C7, as claimed: construction succeeds for every bond count and every    *)
(* per-bond count, negative ones included, stores them verbatim, and a     *)
(* negative or zero bond count gives collections without rows.             *)
(***************************************************************************)
C7_Claimed_ConstructNeverFails ==
    IsConstructorCall =>
        /\ pc = "live"
        /\ _bondName = lastCall.args.bondName
        /\ _numberOfParticlesInBond = lastCall.args.numberOfParticlesInBond
        /\ _numberOfParametersInBond = lastCall.args.numberOfParametersInBond
        /\ _numberOfBonds = lastCall.args.numberOfBonds
        /\ (lastCall.args.numberOfBonds <= 0 =>
                _particleIndices = << >> /\ _bondParameters = << >>)

(***************************************************************************)
(* C7, amended: construction validates nothing itself.  For every bond     *)
(* count >= 0 and every per-bond count, zero and negative ones included,   *)
(* it succeeds and stores the values verbatim, and a zero bond count gives *)
(* collections without rows; a negative bond count makes the allocation of *)
(* the rows throw a length error, so that no store comes to exist.         *)
(***************************************************************************)
C7_ConstructStoresVerbatimOrAllocationThrows ==
    IsConstructorCall =>
        IF lastCall.args.numberOfBonds >= 0
        THEN /\ pc = "live"
             /\ lastCall.outcome = "constructed"
             /\ _bondName = lastCall.args.bondName
             /\ _numberOfParticlesInBond = lastCall.args.numberOfParticlesInBond
             /\ _numberOfParametersInBond = lastCall.args.numberOfParametersInBond
             /\ _numberOfBonds = lastCall.args.numberOfBonds
             /\ _log = lastCall.args.log
             /\ (lastCall.args.numberOfBonds = 0 =>
                     _particleIndices = << >> /\ _bondParameters = << >>)
        ELSE /\ pc = "failed"
             /\ lastCall.outcome = "length_error"

\* a store constructed with no bonds and negative per-bond counts
C7_Witness ==
    /\ IsConstructorCall
    /\ pc = "live"
    /\ lastCall.args.numberOfBonds = 0
    /\ _numberOfParticlesInBond < 0
    /\ _numberOfParametersInBond < 0

(***************************************************************************)
(* C8: a setBond call that returns changes nothing but the two rows of its *)
(* bond: every other row, the bond name, the three counts and the log      *)
(* handle are as before, and nothing is written to a log.                  *)
(***************************************************************************)
C8_SetBondChangesOnlyItsRows ==
    [][ (lastCall'.op = "setBond" /\ lastCall'.outcome = "returned")
        => /\ \A k \in 1 .. Len(_particleIndices) :
                 k # lastCall'.args[1] + 1 => _particleIndices'[k] = _particleIndices[k]
           /\ \A k \in 1 .. Len(_bondParameters) :
                 k # lastCall'.args[1] + 1 => _bondParameters'[k] = _bondParameters[k]
           /\ Len(_particleIndices') = Len(_particleIndices)
           /\ Len(_bondParameters') = Len(_bondParameters)
           /\ _bondName' = _bondName
           /\ _numberOfParticlesInBond' = _numberOfParticlesInBond
           /\ _numberOfParametersInBond' = _numberOfParametersInBond
           /\ _numberOfBonds' = _numberOfBonds
           /\ _log' = _log
           /\ logOutput' = logOutput
           /\ pc' = pc ]_vars

\* setBond returned on one bond while the other bond holds data and a log is set
C8_Witness ==
    /\ SetBondReturned
    /\ _log # NULL
    /\ \E ii \in Bonds : ii # lastCall.args[1] /\ _particleIndices[ii + 1] # << >>
    /\ _particleIndices[lastCall.args[1] + 1] # << >>

(***************************************************************************)
(* C9, as claimed, where the dump reads only elements that exist: after    *)
(* the "Bonds:" header comes one line per bond in ascending index order,   *)
(* and the line of bond i is the tab immediately followed by i in 6        *)
(* columns, then the bracketed particle indices of row i, each in 6        *)
(* columns, then the bracketed parameter values of row i.                  *)
(***************************************************************************)
ClaimedBondLine(ii) ==
    tab \o Format6d(ii) \o << " ", "[" >>
        \o Listed(Format6d, _particleIndices[ii + 1], 1)
        \o << "]", " ", "[" >>
        \o Listed(Format18_10e, _bondParameters[ii + 1], 1)
        \o << "]" >>

ExpectedBondLine(ii) ==
    tab \o << " " >> \o Spaces(40) \o << " " >>
        \o Format6d(ii) \o << " ", "[" >>
        \o Listed(Format6d, Given(_particleIndices[ii + 1], _numberOfParticlesInBond), 1)
        \o << "]", " ", "[" >>
        \o Listed(Format18_10e, Given(_bondParameters[ii + 1], _numberOfParametersInBond), 1)
        \o << "]" >>

C10_Claimed_RowLengthIsCallsTimesCount ==
    pc = "live" =>
        \A ii \in Bonds :
            /\ Len(_particleIndices[ii + 1]) = TimesSet(ii) * _numberOfParticlesInBond
            /\ Len(_bondParameters[ii + 1]) = TimesSet(ii) * _numberOfParametersInBond

(***************************************************************************)
(* C10, amended: in every state and for every valid bond i, the            *)
(* particle-index row has length k_i * max(particlesPerBond, 0) and the    *)
(* parameter row has length k_i * max(parametersPerBond, 0), k_i being the *)
(* number of setBond calls on i that returned; a setBond that throws and   *)
(* every read leave k_i and both lengths as they were.                     *)
(***************************************************************************)
C10_RowLengthIsCallsTimesCount ==
    /\ [] ( pc = "live" =>
              \A ii \in Bonds :
                  /\ Len(_particleIndices[ii + 1]) =
                        TimesSet(ii) * Max(_numberOfParticlesInBond, 0)
                  /\ Len(_bondParameters[ii + 1]) =
                        TimesSet(ii) * Max(_numberOfParametersInBond, 0) )
    /\ [][ ( /\ pc = "live"
             /\ ~ (lastCall'.op = "setBond" /\ lastCall'.outcome = "returned") )
           => /\ setBondCalls' = setBondCalls
              /\ Len(_particleIndices') = Len(_particleIndices)
              /\ \A k \in 1 .. Len(_particleIndices) :
                    Len(_particleIndices'[k]) = Len(_particleIndices[k])
              /\ Len(_bondParameters') = Len(_bondParameters)
              /\ \A k \in 1 .. Len(_bondParameters) :
                    Len(_bondParameters'[k]) = Len(_bondParameters[k]) ]_vars

\* one bond set twice and the other never, with unequal per-bond counts, seen
\* after a setBond that threw
C10_Witness ==
    /\ SetBondThrew
    /\ bondCount = 2
    /\ \E ii, jj \in Bonds : TimesSet(ii) = 2 /\ TimesSet(jj) = 0
    /\ _numberOfParticlesInBond = 2
    /\ _numberOfParametersInBond = 1

=============================================================================
